---- MODULE Spec2Model ----
(***************************************************************************)
(* Service discovery client of gilliam-py (gilliam/service_registry.py):   *)
(* the registry transport ServiceRegistryClient._request with its per-node *)
(* circuit breakers, the heartbeat loop of _Registration and the refresh   *)
(* loop of _FormationCache, as interleaved threads.                        *)
(***************************************************************************)
EXTENDS Integers, Sequences, FiniteSets, TLC

\* ------------------------------------------------------------------ bounds
\* number of registry nodes handed to ServiceRegistryClient
NumNodes == 2
\* number of instance keys a registry response can hold
NumKeys == 2
\* cap of the counter of heartbeat requests issued after the stop signal
MaxCount == 2

Nodes == 1..NumNodes
Keys == 1..NumKeys

\* a string is the sequence of its tokens: the dot, or a name that holds no dot
Dot == "."

\* an announcement: the JSON object an instance registers, with the fields
\* the resolver reads
Announcement(service, instance, host, ports) ==
    [service |-> service, instance |-> instance, host |-> host, ports |-> ports]

\* the ports mapping of an announcement: exposed port (a string) to published
\* port; here nothing published, or port 80 published as 8080
NoPorts == [x \in {} |-> 0]
Port80 == [x \in {"80"} |-> 8080]

\* announcement payloads the registry may hold for a key
Vals == {"a1"}
\* the announcement a payload stands for
CachedAnnouncement(v) == Announcement(<<"A">>, <<"A">>, <<"h0">>, Port80)

\* HTTP statuses a node answers with: success, client error, server error
Statuses == {200, 404, 503}
\* network-level exceptions of the requests library raised by session.request
NetErrors == {"ConnectionError", "Timeout"}

\* the threads that call _request: a foreground caller, the heartbeat thread of
\* the registration, the refresh thread of the formation cache, and a thread
\* that resolves names
Threads == {"caller", "reg", "cache", "resolver"}
Methods == {"GET", "PUT"}

VARIABLES
    cluster_nodes,  \* ServiceRegistryClient.cluster_nodes: the shuffled node order
    breaker,        \* ServiceRegistryClient.breaker: one circuit per node
    call,           \* per thread: the frame of its running _request call
    reg,            \* the _Registration handle and its thread
    regStop,        \* the thread that runs _Registration.stop
    fc,             \* the _FormationCache handle and its thread
    fcStop,         \* the thread that runs _FormationCache.stop
    reader,         \* the thread that runs _FormationCache.query
    lastGood,       \* history: the response mapping of the last completed refresh
    res             \* the thread that runs Resolver.resolve_host_port

vars == <<cluster_nodes, breaker, call, reg, regStop, fc, fcStop, reader, lastGood,
          res>>

\* ------------------------------------------------------------ helpers
RECURSIVE Perms(_)
Perms(S) ==
    IF S = {} THEN {<<>>}
    ELSE UNION {{<<x>> \o p : p \in Perms(S \ {x})} : x \in S}

EmptyMap == [k \in {} |-> "a1"]
\* the JSON objects a GET /{formation} may answer with
Bodies == UNION {[S -> Vals] : S \in SUBSET Keys}

\* ------------------------------------------------- circuit breaker (library)
\* a client that registers no exception type with its breakers
HandledErrors_None == {}

\* ServiceRegistryClient.__init__ registers exactly these exception types
HandledErrors == {"RequestException", "ConnectionError", "TooManyRedirects"}

\* a circuit is closed, open or half-open
ClosedCircuit == "closed"
OpenCircuit == "open"
HalfOpenCircuit == "half-open"

\* CircuitBreaker.test, run by __enter__: TRUE when it raises CircuitOpenError;
\* elapsed: the clock shows reset_timeout has passed since the circuit opened
TestRaises(c, elapsed) == c = OpenCircuit /\ ~elapsed

\* the circuit after __enter__ let the call through
AfterEnter(c) ==
    IF c = OpenCircuit THEN HalfOpenCircuit ELSE c

\* CircuitBreaker.success
BreakerSuccess(c) ==
    IF c = HalfOpenCircuit THEN ClosedCircuit ELSE c

\* CircuitBreaker.error: the failure is counted; trips: with it the failures
\* counted within time_unit exceed maxfail, which opens the circuit
BreakerError(c, trips) ==
    IF trips THEN OpenCircuit ELSE c

\* what __exit__ records for the exception type exc ("none": no exception)
BreakerEvent(exc) ==
    IF exc = "none" THEN "success"
    ELSE IF exc \in HandledErrors THEN "error"
    ELSE "ignored"

\* CircuitBreaker.__exit__
BreakerExit(c, exc, trips) ==
    IF BreakerEvent(exc) = "success" THEN BreakerSuccess(c)
    ELSE IF BreakerEvent(exc) = "error" THEN BreakerError(c, trips)
    ELSE c

\* CircuitBreaker.__exit__ returns False: the exception raised in the guarded
\* block is not suppressed by the context manager
ExitSuppresses == FALSE

\* --------------------------------------------------------- _request
IdleCall == [pc |-> "idle", method |-> "GET", idx |-> 0, tried |-> <<>>,
             status |-> 0, exc |-> "none"]

\* what session.request ends with: a response with a status, or an exception
Outcomes == [exc : {"none"}, status : Statuses] \cup [exc : NetErrors, status : {0}]

\* a transport that also fails over on client errors
IsServerError_From400(status) == status >= 400

\* line 221: the statuses _request turns into a RequestException
IsServerError(status) == status >= 500

\* lines 224-225: the only exception type the for loop catches and skips on
Caught(exc) == exc = "CircuitOpenError"

\* lines 219-223: the exception the guarded block of one attempt ends with
BlockException(outcome) ==
    IF outcome.exc # "none" THEN outcome.exc
    ELSE IF IsServerError(outcome.status) THEN "RequestException"
    ELSE "none"

\* the circuit can trip only on an outcome that __exit__ records as an error
TripChoices(outcome) ==
    IF BreakerEvent(BlockException(outcome)) = "error" THEN BOOLEAN ELSE {FALSE}

\* one entry of the call's record of the nodes it went through
Attempt(n, kind, status, event) ==
    [node |-> n, kind |-> kind, status |-> status, event |-> event]

\* lines 217-225: an exception exc leaves the with statement of node n:
\* swallowed by the context manager or caught by the except clause, the loop
\* goes on with the next node; otherwise it leaves _request
AfterException(c, exc, tried) ==
    IF ExitSuppresses \/ Caught(exc)
    THEN [c EXCEPT !.idx = c.idx + 1, !.tried = tried]
    ELSE [c EXCEPT !.pc = "raised", !.exc = exc, !.tried = tried]

\* a for loop that leaves out the first node of the order
ReqBegin_FromSecond(t, m) ==
    /\ call[t].pc = "idle"
    /\ call' = [call EXCEPT ![t] = [IdleCall EXCEPT !.pc = "loop", !.method = m,
                                                     !.idx = 2]]

\* a thread enters _request
ReqBegin(t, m) ==
    /\ call[t].pc = "idle"
    /\ call' = [call EXCEPT ![t] = [IdleCall EXCEPT !.pc = "loop", !.method = m,
                                                     !.idx = 1]]

\* one turn of the for loop up to the HTTP request being sent:
\* breaker.context(node).__enter__, then session.request is issued
ReqEnter(t, elapsed) ==
    /\ call[t].pc = "loop"
    /\ call[t].idx <= Len(cluster_nodes)
    /\ LET n == cluster_nodes[call[t].idx] IN
        IF TestRaises(breaker[n], elapsed)
        THEN /\ call' = [call EXCEPT ![t] = AfterException(@, "CircuitOpenError",
                                Append(@.tried, Attempt(n, "open", 0, "skipped")))]
             /\ UNCHANGED breaker
        ELSE /\ breaker' = [breaker EXCEPT ![n] = AfterEnter(@)]
             /\ call' = [call EXCEPT ![t].pc = "inflight"]

\* the node answers (a status) or the transport fails (an exception); the
\* guarded block ends, __exit__ updates the circuit, and the call returns,
\* goes on with the next node, or raises
ReqRespond(t, outcome, trips) ==
    /\ call[t].pc = "inflight"
    /\ LET n == cluster_nodes[call[t].idx]
           exc == BlockException(outcome)
           kind == IF outcome.exc = "none" THEN "response" ELSE outcome.exc
           tried == Append(call[t].tried,
                           Attempt(n, kind, outcome.status, BreakerEvent(exc)))
       IN
        /\ breaker' = [breaker EXCEPT ![n] = BreakerExit(@, exc, trips)]
        /\ IF exc = "none"
           THEN call' = [call EXCEPT ![t].pc = "returned",
                                     ![t].status = outcome.status,
                                     ![t].tried = tried]
           ELSE call' = [call EXCEPT ![t] = AfterException(@, exc, tried)]

\* the for loop ran out of nodes: the else branch raises
ReqExhausted(t) ==
    /\ call[t].pc = "loop"
    /\ call[t].idx > Len(cluster_nodes)
    /\ call' = [call EXCEPT ![t].pc = "raised", ![t].exc = "Exception"]
    /\ UNCHANGED breaker

\* another user of the same client enters the guarded block of node n
\* (its own call frame is not followed): an open circuit whose reset_timeout
\* has passed turns half-open
PeerEnter(n) ==
    /\ breaker[n] = OpenCircuit
    /\ breaker' = [breaker EXCEPT ![n] = AfterEnter(@)]

\* another user of the client leaves the guarded block of node n, with a
\* response below 500 (ok) or with a failure that trips the circuit
PeerExit(n, ok) ==
    /\ breaker' = [breaker EXCEPT
                     ![n] = BreakerExit(@, IF ok THEN "none" ELSE "RequestException",
                                        TRUE)]
    /\ breaker' # breaker

\* ------------------------------------------------------ foreground caller
\* some code of the application calls _request directly
CallerBegin(m) ==
    /\ ReqBegin("caller", m)
    /\ UNCHANGED <<cluster_nodes, breaker, reg, regStop, fc, fcStop, reader, lastGood, res>>

CallerEnter(elapsed) ==
    /\ ReqEnter("caller", elapsed)
    /\ UNCHANGED <<cluster_nodes, reg, regStop, fc, fcStop, reader, lastGood, res>>

CallerRespond(outcome, trips) ==
    /\ ReqRespond("caller", outcome, trips)
    /\ UNCHANGED <<cluster_nodes, reg, regStop, fc, fcStop, reader, lastGood, res>>

CallerExhausted ==
    /\ ReqExhausted("caller")
    /\ UNCHANGED <<cluster_nodes, reg, regStop, fc, fcStop, reader, lastGood, res>>

\* the caller has taken the response or the exception of its call
CallerDone ==
    /\ call["caller"].pc \in {"returned", "raised"}
    /\ call' = [call EXCEPT !["caller"] = IdleCall]
    /\ UNCHANGED <<cluster_nodes, breaker, reg, regStop, fc, fcStop, reader, lastGood, res>>

\* ------------------------------------------------------ other users
PeerBegins(n) ==
    /\ PeerEnter(n)
    /\ UNCHANGED <<cluster_nodes, call, reg, regStop, fc, fcStop, reader, lastGood, res>>

PeerEnds(n, ok) ==
    /\ PeerExit(n, ok)
    /\ UNCHANGED <<cluster_nodes, call, reg, regStop, fc, fcStop, reader, lastGood, res>>

\* ------------------------------------------------------ _Registration
\* pc: none (no handle), check (at the while test), put (inside _request),
\* sleep (in stopped.wait), exited (loop left), crashed (exception left _loop).
\* failed: the last PUT raised.  late: the running iteration has sent a request
\* after the stop signal.  putsAfter: history, the number of iterations that did.
NoReg == [pc |-> "none", stopped |-> FALSE, failed |-> FALSE, late |-> FALSE,
          putsAfter |-> 0]

NoStop == [pc |-> "idle", timed |-> FALSE, joined |-> FALSE]

\* a loop that never reads the stop signal
LoopCondition_Always(stopped) == TRUE

\* line 51: the while condition of _loop
LoopCondition(stopped) == ~stopped

\* an except clause that names only the transport's exception types
HeartbeatCatches_OnlyTransport(exc) ==
    exc \in {"RequestException", "ConnectionError", "TooManyRedirects"}

\* line 57: except Exception catches every exception type _request can raise
HeartbeatCatches(exc) ==
    exc \in {"RequestException", "ConnectionError", "Timeout", "TooManyRedirects",
             "CircuitOpenError", "Exception"}

\* a stop() that flips the signal instead of setting it
SetEvent_Toggle(flag) == ~flag

\* lines 72, 98: Event.set() leaves the event set, whatever it was
SetEvent(flag) == TRUE

\* a wait that passes no timeout
WaitReturns_Unbounded(set, timed) == set

\* Event.wait(timeout): returns once the event is set, or the timeout is over;
\* timed is TRUE for a call that passes a timeout
WaitReturns(set, timed) == set \/ timed

\* a loop that sleeps with time.sleep(interval)
SleepReturns_TimeSleep(stopped, over) == over

\* lines 63, 110: the loop sleeps in wait(interval) on the event stop() sets;
\* over: the interval has passed
SleepReturns(stopped, over) == WaitReturns(stopped, over)

\* a stop() that does not wait for the thread
JoinReturns_NoWait(dead, timed) == TRUE

\* Thread.join(timeout): returns once the thread is dead, or the timeout is over
JoinReturns(dead, timed) == dead \/ timed

\* the arguments of the register() calls: names and the announcement
RegArgs ==
    { [form_name |-> <<"f">>, service |-> <<"a">>, instance_name |-> <<"b">>,
       data |-> Announcement(<<"a">>, <<"b">>, <<"h1">>, Port80)],
      [form_name |-> <<"f">>, service |-> <<"b">>, instance_name |-> <<"a">>,
       data |-> Announcement(<<"b">>, <<"a">>, <<"h2">>, NoPorts)] }

\* a path that names the instance before the service
Uri_InstanceFirst(form_name, service, instance_name) ==
    <<"/">> \o form_name \o <<"/">> \o instance_name \o <<Dot>> \o service

\* line 50: '/%s/%s.%s' % (form_name, service, instance_name)
Uri(form_name, service, instance_name) ==
    <<"/">> \o form_name \o <<"/">> \o service \o <<Dot>> \o instance_name

\* line 55: json.dumps(self.data), the text of the announcement
Dumps(data) == [json |-> data]

\* lines 36-47: the fields of a new handle; request holds the arguments of
\* the handle's latest _request call, none before the first
NewReg(a) ==
    [pc |-> "check", stopped |-> FALSE, failed |-> FALSE, late |-> FALSE,
     putsAfter |-> 0, form_name |-> a.form_name, service |-> a.service,
     instance_name |-> a.instance_name, data |-> a.data, request |-> <<>>]

\* register(): the handle is built and start() launches the thread
Register ==
    /\ reg.pc = "none"
    /\ \E a \in RegArgs : reg' = NewReg(a)
    /\ UNCHANGED <<cluster_nodes, breaker, call, regStop, fc, fcStop, reader, lastGood, res>>

\* the while test; when it passes the thread enters _request('PUT', uri)
RegCheck ==
    /\ reg.pc = "check"
    /\ IF LoopCondition(reg.stopped)
       THEN /\ reg' = [reg EXCEPT
                        !.pc = "put", !.late = FALSE,
                        !.request =
                            << [method |-> "PUT",
                                uri |-> Uri(reg.form_name, reg.service,
                                            reg.instance_name),
                                data |-> Dumps(reg.data)] >>]
            /\ ReqBegin("reg", "PUT")
       ELSE /\ reg' = [reg EXCEPT !.pc = "exited"]
            /\ UNCHANGED call
    /\ UNCHANGED <<cluster_nodes, breaker, regStop, fc, fcStop, reader, lastGood, res>>

RegEnter(elapsed) ==
    /\ reg.pc = "put"
    /\ ReqEnter("reg", elapsed)
    /\ reg' = IF call'["reg"].pc = "inflight" /\ reg.stopped /\ ~reg.late
              THEN [reg EXCEPT !.late = TRUE,
                               !.putsAfter = IF reg.putsAfter < MaxCount
                                              THEN reg.putsAfter + 1
                                              ELSE MaxCount]
              ELSE reg
    /\ UNCHANGED <<cluster_nodes, regStop, fc, fcStop, reader, lastGood, res>>

RegRespond(outcome, trips) ==
    /\ reg.pc = "put"
    /\ ReqRespond("reg", outcome, trips)
    /\ UNCHANGED <<cluster_nodes, reg, regStop, fc, fcStop, reader, lastGood, res>>

RegExhausted ==
    /\ reg.pc = "put"
    /\ ReqExhausted("reg")
    /\ UNCHANGED <<cluster_nodes, reg, regStop, fc, fcStop, reader, lastGood, res>>

\* _request is over: a response, or an exception met by the except clause;
\* the thread goes on to stopped.wait(interval)
RegAfterPut ==
    /\ reg.pc = "put"
    /\ call["reg"].pc \in {"returned", "raised"}
    /\ LET raised == call["reg"].pc = "raised" IN
        reg' = IF raised /\ ~HeartbeatCatches(call["reg"].exc)
               THEN [reg EXCEPT !.pc = "crashed", !.failed = TRUE]
               ELSE [reg EXCEPT !.pc = "sleep", !.failed = raised]
    /\ call' = [call EXCEPT !["reg"] = IdleCall]
    /\ UNCHANGED <<cluster_nodes, breaker, regStop, fc, fcStop, reader, lastGood, res>>

\* stopped.wait(interval) returns: the interval is over or the event is set
RegWake(over) ==
    /\ reg.pc = "sleep"
    /\ SleepReturns(reg.stopped, over)
    /\ reg' = [reg EXCEPT !.pc = "check"]
    /\ UNCHANGED <<cluster_nodes, breaker, call, regStop, fc, fcStop, reader, lastGood, res>>

\* stop(timeout): stopped.set(), then the caller is in _thread.join(timeout);
\* timed is TRUE for a call that passes a timeout
RegStop(timed) ==
    /\ reg.pc # "none"
    /\ regStop.pc = "idle"
    /\ reg' = [reg EXCEPT !.stopped = SetEvent(@)]
    /\ regStop' = [regStop EXCEPT !.pc = "join", !.timed = timed]
    /\ UNCHANGED <<cluster_nodes, breaker, call, fc, fcStop, reader, lastGood, res>>

\* join returns and with it stop(); joined: a stop() without timeout has returned
RegJoin ==
    /\ regStop.pc = "join"
    /\ JoinReturns(reg.pc \in {"exited", "crashed"}, regStop.timed)
    /\ regStop' = [regStop EXCEPT !.pc = "idle",
                                  !.joined = regStop.joined \/ ~regStop.timed]
    /\ UNCHANGED <<cluster_nodes, breaker, call, reg, fc, fcStop, reader, lastGood, res>>

\* ------------------------------------------------------ _FormationCache
\* pc: none (no handle), check (at the while test), lock (waiting for _lock),
\* request (inside _request, in query_formation), build (dict() consumes the
\* generator), updated (_update returned), sleep (in _stopped.wait), exited,
\* crashed (an exception left _loop).
\* start: the position of the thread that called formation_cache().
NoCache == [pc |-> "none", start |-> "none", stopped |-> FALSE, running |-> FALSE,
            lock |-> "free", cache |-> EmptyMap,
            body |-> EmptyMap, built |-> EmptyMap, todo |-> {}]

\* afterStop: history, the call was made after a stop() without timeout returned
NoReader == [pc |-> "idle", result |-> EmptyMap, seen |-> EmptyMap,
             afterStop |-> FALSE]

\* the default factory, dict: a copy of the announcement
Factory(data) == data

\* line 254-255: the mapping a response body yields once fully consumed
FactoryMap(body) == [k \in DOMAIN body |-> Factory(body[k])]

\* d[k] = v on a dict under construction
Put(d, k, v) == [x \in DOMAIN d \cup {k} |-> IF x = k THEN v ELSE d[x]]

\* an _update that clears the snapshot before it queries
UpdateResult_ResetOnFailure(old, built, completed) ==
    IF completed THEN built ELSE EmptyMap

\* an _update that fills the snapshot in place, item by item
UpdateResult_InPlace(old, built, completed) == built

\* an _update that adds the response to the snapshot it has
UpdateResult_Merge(old, built, completed) ==
    IF completed
    THEN [k \in DOMAIN old \cup DOMAIN built |->
            IF k \in DOMAIN built THEN built[k] ELSE old[k]]
    ELSE old

\* lines 102-104: self._cache after the with block: the assignment runs only
\* when dict(...) of the generator completed
UpdateResult(old, built, completed) == IF completed THEN built ELSE old

\* line 253: raise_for_status raises HTTPError on a 4xx or 5xx status
RaisesForStatus(status) == status >= 400

\* lines 107-108: the while condition of the refresh loop
FcLoopCondition(stopped) == ~stopped

\* formation_cache(): the handle is built, start() launches the thread and
\* waits on _running for at most 0.1 s
FormationCache ==
    /\ fc.pc = "none"
    /\ fc' = [NoCache EXCEPT !.pc = "check", !.start = "waiting"]
    /\ UNCHANGED <<cluster_nodes, breaker, call, reg, regStop, fcStop, reader, lastGood, res>>

\* _running.wait(timeout=0.1) returns: the event is set or the wait timed out
FcStartReturn ==
    /\ fc.start = "waiting"
    /\ WaitReturns(fc.running, TRUE)
    /\ fc' = [fc EXCEPT !.start = "returned"]
    /\ UNCHANGED <<cluster_nodes, breaker, call, reg, regStop, fcStop, reader, lastGood, res>>

FcCheck ==
    /\ fc.pc = "check"
    /\ fc' = [fc EXCEPT !.pc = IF FcLoopCondition(fc.stopped) THEN "lock" ELSE "exited"]
    /\ UNCHANGED <<cluster_nodes, breaker, call, reg, regStop, fcStop, reader, lastGood, res>>

\* _update: with self._lock, then dict() starts the generator of
\* query_formation, which enters _request('GET', '/' + form_name)
FcLock ==
    /\ fc.pc = "lock"
    /\ fc.lock = "free"
    /\ fc' = [fc EXCEPT !.pc = "request", !.lock = "cache"]
    /\ ReqBegin("cache", "GET")
    /\ UNCHANGED <<cluster_nodes, breaker, reg, regStop, fcStop, reader, lastGood, res>>

FcEnter(elapsed) ==
    /\ fc.pc = "request"
    /\ ReqEnter("cache", elapsed)
    /\ UNCHANGED <<cluster_nodes, reg, regStop, fc, fcStop, reader, lastGood, res>>

FcRespond(outcome, trips) ==
    /\ fc.pc = "request"
    /\ ReqRespond("cache", outcome, trips)
    /\ UNCHANGED <<cluster_nodes, reg, regStop, fc, fcStop, reader, lastGood, res>>

FcExhausted ==
    /\ fc.pc = "request"
    /\ ReqExhausted("cache")
    /\ UNCHANGED <<cluster_nodes, reg, regStop, fc, fcStop, reader, lastGood, res>>

\* a loop that sets the readiness signal in a finally clause
FcCrash_Signals(f) ==
    [f EXCEPT !.pc = "crashed", !.lock = "free", !.running = TRUE,
              !.cache = UpdateResult(f.cache, f.built, FALSE),
              !.body = EmptyMap, !.built = EmptyMap, !.todo = {}]

\* an exception leaves the with block of _update, releasing the lock;
\* neither _update nor _loop has an except clause, so it ends the thread
FcCrash(f) ==
    [f EXCEPT !.pc = "crashed", !.lock = "free",
              !.cache = UpdateResult(f.cache, f.built, FALSE),
              !.body = EmptyMap, !.built = EmptyMap, !.todo = {}]

\* the refresh fails in query_formation: _request raised, or raise_for_status
\* raised HTTPError on the response
FcRequestFails ==
    /\ fc.pc = "request"
    /\ \/ call["cache"].pc = "raised"
       \/ /\ call["cache"].pc = "returned"
          /\ RaisesForStatus(call["cache"].status)
    /\ fc' = FcCrash(fc)
    /\ call' = [call EXCEPT !["cache"] = IdleCall]
    /\ UNCHANGED <<cluster_nodes, breaker, reg, regStop, fcStop, reader, lastGood, res>>

\* the response passed raise_for_status but its body is no JSON document:
\* response.json() raises
FcJsonFails ==
    /\ fc.pc = "request"
    /\ call["cache"].pc = "returned"
    /\ ~RaisesForStatus(call["cache"].status)
    /\ fc' = FcCrash(fc)
    /\ call' = [call EXCEPT !["cache"] = IdleCall]
    /\ UNCHANGED <<cluster_nodes, breaker, reg, regStop, fcStop, reader, lastGood, res>>

\* the response passed raise_for_status and response.json() is the object body
FcParse(body) ==
    /\ fc.pc = "request"
    /\ call["cache"].pc = "returned"
    /\ ~RaisesForStatus(call["cache"].status)
    /\ fc' = [fc EXCEPT !.pc = "build", !.body = body, !.built = EmptyMap,
                        !.todo = DOMAIN body]
    /\ call' = [call EXCEPT !["cache"] = IdleCall]
    /\ UNCHANGED <<cluster_nodes, breaker, reg, regStop, fcStop, reader, lastGood, res>>

\* dict() takes the next (key, factory(data)) of the generator
FcBuildItem(k) ==
    /\ fc.pc = "build"
    /\ k \in fc.todo
    /\ fc' = [fc EXCEPT !.built = Put(fc.built, k, Factory(fc.body[k])),
                        !.todo = fc.todo \ {k}]
    /\ UNCHANGED <<cluster_nodes, breaker, call, reg, regStop, fcStop, reader, lastGood, res>>

\* factory(data) raises on the next item
FcFactoryFails ==
    /\ fc.pc = "build"
    /\ fc.todo # {}
    /\ fc' = FcCrash(fc)
    /\ UNCHANGED <<cluster_nodes, breaker, call, reg, regStop, fcStop, reader, lastGood, res>>

\* a join that takes the current thread like any other thread
JoinRaises_Never(caller, thread) == FALSE

\* line 99: Thread.join raises RuntimeError ("cannot join current thread")
\* when the thread that calls it is the thread to join, whatever the timeout
JoinRaises(caller, thread) == caller = thread

\* factory(data) calls stop(timeout) of the cache it runs for: the signal is
\* set, then join is called on the current thread. The RuntimeError is met
\* inside the factory (caught), which then goes on, or it leaves _update and
\* the thread. "selfjoin" is a thread that waits in join for its own end.
FcFactoryStops(timed, caught) ==
    /\ fc.pc = "build"
    /\ fc.todo # {}
    /\ LET signalled == [fc EXCEPT !.stopped = SetEvent(@)] IN
        fc' = IF JoinRaises("cache", "cache")
              THEN IF caught THEN signalled ELSE FcCrash(signalled)
              ELSE IF JoinReturns(FALSE, timed) THEN signalled
              ELSE [signalled EXCEPT !.pc = "selfjoin"]
    /\ UNCHANGED <<cluster_nodes, breaker, call, reg, regStop, fcStop, reader, lastGood, res>>

\* the generator is exhausted: self._cache is assigned, the lock released
FcSwap ==
    /\ fc.pc = "build"
    /\ fc.todo = {}
    /\ fc' = [fc EXCEPT !.pc = "updated", !.lock = "free",
                        !.cache = UpdateResult(fc.cache, fc.built, TRUE),
                        !.body = EmptyMap, !.built = EmptyMap]
    /\ lastGood' = FactoryMap(fc.body)
    /\ UNCHANGED <<cluster_nodes, breaker, call, reg, regStop, fcStop, reader, res>>

\* line 109-110: _running.set(), then the thread is in _stopped.wait(interval)
FcReady ==
    /\ fc.pc = "updated"
    /\ fc' = [fc EXCEPT !.pc = "sleep", !.running = TRUE]
    /\ UNCHANGED <<cluster_nodes, breaker, call, reg, regStop, fcStop, reader, lastGood, res>>

FcWake(over) ==
    /\ fc.pc = "sleep"
    /\ SleepReturns(fc.stopped, over)
    /\ fc' = [fc EXCEPT !.pc = "check"]
    /\ UNCHANGED <<cluster_nodes, breaker, call, reg, regStop, fcStop, reader, lastGood, res>>

\* stop(timeout) of the cache, on the handle formation_cache() returned
FcStop(timed) ==
    /\ fc.start = "returned"
    /\ fcStop.pc = "idle"
    /\ fc' = [fc EXCEPT !.stopped = SetEvent(@)]
    /\ fcStop' = [fcStop EXCEPT !.pc = "join", !.timed = timed]
    /\ UNCHANGED <<cluster_nodes, breaker, call, reg, regStop, reader, lastGood, res>>

FcJoin ==
    /\ fcStop.pc = "join"
    /\ JoinReturns(fc.pc \in {"exited", "crashed"}, fcStop.timed)
    /\ fcStop' = [fcStop EXCEPT !.pc = "idle",
                                !.joined = fcStop.joined \/ ~fcStop.timed]
    /\ UNCHANGED <<cluster_nodes, breaker, call, reg, regStop, fc, reader, lastGood, res>>

\* query(): the caller arrives at with self._lock
QueryCall ==
    /\ fc.start = "returned"
    /\ reader.pc = "idle"
    /\ reader' = [reader EXCEPT !.pc = "acquire", !.afterStop = fcStop.joined]
    /\ UNCHANGED <<cluster_nodes, breaker, call, reg, regStop, fc, fcStop, lastGood, res>>

QueryLock ==
    /\ reader.pc = "acquire"
    /\ fc.lock = "free"
    /\ fc' = [fc EXCEPT !.lock = "reader"]
    /\ reader' = [reader EXCEPT !.pc = "locked"]
    /\ UNCHANGED <<cluster_nodes, breaker, call, reg, regStop, fcStop, lastGood, res>>

\* dict(self._cache) under the lock, which the return releases;
\* seen: history, the last completed refresh at the time of the copy
QueryCopy ==
    /\ reader.pc = "locked"
    /\ fc' = [fc EXCEPT !.lock = "free"]
    /\ reader' = [reader EXCEPT !.pc = "done", !.result = fc.cache,
                                 !.seen = lastGood]
    /\ UNCHANGED <<cluster_nodes, breaker, call, reg, regStop, fcStop, lastGood, res>>

\* the caller has taken the mapping
QueryDone ==
    /\ reader.pc = "done"
    /\ reader' = NoReader
    /\ UNCHANGED <<cluster_nodes, breaker, call, reg, regStop, fc, fcStop, lastGood, res>>

\* ------------------------------------------------------ strings
\* str.lower, token by token
LowerToken(x) == IF x = "A" THEN "a" ELSE x
Lower(s) == [i \in DOMAIN s |-> LowerToken(s[i])]

\* '.' in s
HasDot(s) == \E i \in DOMAIN s : s[i] = Dot

\* s.endswith(".service")
EndsWithService(s) ==
    /\ Len(s) >= 2
    /\ s[Len(s) - 1] = Dot
    /\ s[Len(s)] = "service"

\* s.split('.'): the list of the pieces between the dots; one piece, the
\* string itself, when it holds no dot (the empty string included)
RECURSIVE Split(_)
Split(s) ==
    IF ~HasDot(s) THEN <<s>>
    ELSE LET i == CHOOSE i \in DOMAIN s :
                      s[i] = Dot /\ \A j \in 1..(i - 1) : s[j] # Dot
         IN <<SubSeq(s, 1, i - 1)>> \o Split(SubSeq(s, i + 1, Len(s)))

\* the hostname with the given labels
RECURSIVE Join(_)
Join(labels) ==
    IF Len(labels) = 0 THEN <<>>
    ELSE IF Len(labels) = 1 THEN labels[1]
    ELSE labels[1] \o <<Dot>> \o Join(Tail(labels))

\* str(port)
Str(port) == ToString(port)

\* ------------------------------------------------------ Resolver
\* the hostnames a caller passes: names joined by dots, with or without the
\* reserved last label; the numbers of labels are those _resolve tells apart
\* (1, 3, 4) and the ones between and above (2, 5)
Names == {<<"a">>, <<"A">>}
Marker == <<"service">>
PartCounts == {1, 2, 3, 4, 5}
Hosts ==
    UNION {{Join(p) : p \in [1..n -> Names]}
           \cup {Join(Append(p, Marker)) : p \in [1..(n - 1) -> Names]} :
           n \in PartCounts}
\* the ports a caller asks for
Ports == {80, 443}
\* the search_domain argument of Resolver(): the default '' or a formation
SearchDomains == {<<>>, <<"a">>}

\* the instances registered in the formations a resolver asks about: key k of
\* a response is the instance put under /{formation}/{service}.{instance}
\* with service Instances[k][1] and instance Instances[k][2]
Instances == << <<(<<"A">>), (<<"A">>)>>, <<(<<"A">>), (<<"b">>)>>, <<(<<"b">>), (<<"A">>)>> >>
RKeys == DOMAIN Instances
\* the host of the instance registered under key k
AnnHost(k) == <<"h" \o ToString(k)>>
\* the JSON objects a GET /{formation} answers a resolver with
\* the port the instance of key k publishes port 80 as, when it publishes it
AnnPort(k) == 8080 + k

\* the JSON objects a GET /{formation} answers a resolution with: any of the
\* instances, each with its own host, publishing port 80 or no port
RBodies ==
    UNION {{[k \in S |-> Announcement(Instances[k][1], Instances[k][2],
                                      AnnHost(k),
                                      IF f[k] THEN [x \in {"80"} |-> AnnPort(k)]
                                      ELSE NoPorts)] :
                f \in [S -> BOOLEAN]} : S \in SUBSET RKeys}

\* requests: the _request calls the resolution has made; formation: the
\* form_name it called query_formation with.  kind, exc, rhost, rport: how it
\* ended.  History of the response it selected from: answered (a
\* response was parsed), keys (its keys), offered (the keys whose announcement
\* has the service of the name), named (those that also have its instance,
\* when the name gives one), both compared without case; alts (the list
\* _select returned), picked (the key random.choice took, 0 for none), ports
\* (the ports mapping of that announcement), exposing (the keys of alts whose
\* announcement publishes the port asked for).
NewResolve == [pc |-> "idle", search_domain |-> <<>>, host |-> <<>>, port |-> 0,
               requests |-> 0, formation |-> <<>>, answered |-> FALSE,
               keys |-> {}, offered |-> {}, named |-> {}, alts |-> {},
               picked |-> 0, ports |-> NoPorts, exposing |-> {},
               kind |-> "none", exc |-> "none", rhost |-> <<>>, rport |-> 0]

\* no resolve_host_port call is running
NoResolve == [pc |-> "idle"]

\* what resolve_host_port does with a name: kind is pass (returned as given),
\* error (ResolveError), any (_resolve_any), one (_resolve_one), or unchanged
\* (_resolve falls through its branches)
Plan(kind, service, instance, formation) ==
    [kind |-> kind, service |-> service, instance |-> instance,
     formation |-> formation]

\* a resolve_host_port that sends every name to _resolve
PassThrough_Never(host) == FALSE

\* line 134: the names returned as given
PassThrough(host) == HasDot(host) /\ ~EndsWithService(host)

\* line 145: not self.search_domain, on the list made in __init__
NoSearchDomain(search_domain) == Len(search_domain) = 0

\* lines 138-155: _resolve
Resolve(search_domain, host) ==
    LET parts == Split(host) IN
    IF Len(parts) = 1
    THEN IF NoSearchDomain(search_domain)
         THEN Plan("error", <<>>, <<>>, <<>>)
         ELSE Plan("any", parts[1], <<>>, search_domain[1])
    ELSE IF Len(parts) = 3
    THEN Plan("any", parts[1], <<>>, parts[2])
    ELSE IF Len(parts) = 4
    THEN Plan("one", parts[2], parts[1], parts[3])
    ELSE Plan("unchanged", <<>>, <<>>, <<>>)

\* lines 132-136: resolve_host_port
ResolveHostPort(search_domain, host) ==
    IF PassThrough(host) THEN Plan("pass", <<>>, <<>>, <<>>)
    ELSE Resolve(search_domain, host)

\* a _resolve_one that filters on the service alone
Filters_ServiceOnly(plan) == [attr \in {"service"} |-> plan.service]

\* lines 170-171 and 184: the keyword filters handed to _select
Filters(plan) ==
    IF plan.kind = "one"
    THEN [attr \in {"service", "instance"} |->
            IF attr = "service" THEN plan.service ELSE Lower(plan.instance)]
    ELSE [attr \in {"service"} |-> plan.service]

\* a _select that reads the snapshot of a formation cache
SelectSource_Snapshot(response, snapshot) ==
    [k \in DOMAIN snapshot |-> CachedAnnouncement(snapshot[k])]

\* line 158: _select iterates self.client.query_formation(formation)
SelectSource(response, snapshot) == response

\* lines 158-159: the keys of the announcements that pass every filter
Select(source, filters) ==
    {k \in DOMAIN source :
        \A attr \in DOMAIN filters : Lower(source[k][attr]) = filters[attr]}

\* line 163: str(port) in announcement['ports']
PortExposed(announcement, port) == Str(port) \in DOMAIN announcement.ports

\* a port resolution that hands back the port it was asked for
PublishedPort_Requested(announcement, port) == port

\* line 165
PublishedPort(announcement, port) == announcement.ports[Str(port)]

\* the service, and the instance, a symbolic name stands for: `service`,
\* `service.formation.service`, `instance.service.formation.service`
NameService(host) ==
    LET parts == Split(host) IN IF Len(parts) = 4 THEN parts[2] ELSE parts[1]
NameInstance(host) == Split(host)[1]
NamesInstance(host) == Len(Split(host)) = 4

\* history: the keys of body whose announcement has the service of the name
Offered(body, host) ==
    {k \in DOMAIN body : Lower(body[k].service) = Lower(NameService(host))}

\* history: the keys of body whose announcement the name stands for
Named(body, host) ==
    {k \in Offered(body, host) :
        NamesInstance(host) => Lower(body[k].instance) = Lower(NameInstance(host))}

\* a resolver that takes the port from any alternative that publishes it
Selected_PortFromAny(r, source, alt) ==
    IF alt = 0
    THEN [r EXCEPT !.kind = "raised", !.exc = "ResolveError"]
    ELSE LET announcement == source[alt]
             s == [r EXCEPT !.picked = alt, !.ports = announcement.ports]
             publishing == {k \in r.alts : PortExposed(source[k], r.port)}
         IN IF publishing # {}
            THEN [s EXCEPT !.kind = "returned", !.rhost = announcement.host,
                           !.rport = PublishedPort(
                                        source[CHOOSE k \in publishing : TRUE],
                                        r.port)]
            ELSE [s EXCEPT !.kind = "raised", !.exc = "ResolveError"]

\* lines 172-178, 185-190: the end of _resolve_one and _resolve_any, with alt
\* the key random.choice took (0 when alts is empty)
Selected(r, source, alt) ==
    IF alt = 0
    THEN [r EXCEPT !.kind = "raised", !.exc = "ResolveError"]
    ELSE LET announcement == source[alt]
             s == [r EXCEPT !.picked = alt, !.ports = announcement.ports]
         IN IF PortExposed(announcement, r.port)
            THEN [s EXCEPT !.kind = "returned", !.rhost = announcement.host,
                           !.rport = PublishedPort(announcement, r.port)]
            ELSE [s EXCEPT !.kind = "raised", !.exc = "ResolveError"]

\* Resolver(client, sd).resolve_host_port(host, port), up to its return or to
\* the _request of query_formation
RsCall(sd, host, port) ==
    /\ res.pc = "idle"
    /\ LET search_domain == Split(sd)
           plan == ResolveHostPort(search_domain, host)
           r == [NewResolve EXCEPT !.search_domain = search_domain,
                                  !.host = host, !.port = port]
       IN IF plan.kind \in {"any", "one"}
          THEN /\ res' = [r EXCEPT !.pc = "query", !.requests = r.requests + 1,
                                    !.formation = plan.formation]
               /\ ReqBegin("resolver", "GET")
          ELSE /\ res' = IF plan.kind = "error"
                         THEN [r EXCEPT !.pc = "done", !.kind = "raised",
                                        !.exc = "ResolveError"]
                         ELSE [r EXCEPT !.pc = "done", !.kind = "returned",
                                        !.rhost = host, !.rport = port]
               /\ UNCHANGED call
    /\ UNCHANGED <<cluster_nodes, breaker, reg, regStop, fc, fcStop, reader, lastGood>>

RsEnter(elapsed) ==
    /\ res.pc = "query"
    /\ ReqEnter("resolver", elapsed)
    /\ UNCHANGED <<cluster_nodes, reg, regStop, fc, fcStop, reader, lastGood, res>>

RsRespond(outcome, trips) ==
    /\ res.pc = "query"
    /\ ReqRespond("resolver", outcome, trips)
    /\ UNCHANGED <<cluster_nodes, reg, regStop, fc, fcStop, reader, lastGood, res>>

RsExhausted ==
    /\ res.pc = "query"
    /\ ReqExhausted("resolver")
    /\ UNCHANGED <<cluster_nodes, reg, regStop, fc, fcStop, reader, lastGood, res>>

\* query_formation raises: _request raised, or raise_for_status raised
\* HTTPError on the response; the exception leaves resolve_host_port
RsRequestFails ==
    /\ res.pc = "query"
    /\ \/ call["resolver"].pc = "raised"
       \/ /\ call["resolver"].pc = "returned"
          /\ RaisesForStatus(call["resolver"].status)
    /\ res' = [res EXCEPT !.pc = "done", !.kind = "raised",
                          !.exc = IF call["resolver"].pc = "raised"
                                  THEN call["resolver"].exc ELSE "HTTPError"]
    /\ call' = [call EXCEPT !["resolver"] = IdleCall]
    /\ UNCHANGED <<cluster_nodes, breaker, reg, regStop, fc, fcStop, reader, lastGood>>

\* the response passed raise_for_status but its body is no JSON document
RsJsonFails ==
    /\ res.pc = "query"
    /\ call["resolver"].pc = "returned"
    /\ ~RaisesForStatus(call["resolver"].status)
    /\ res' = [res EXCEPT !.pc = "done", !.kind = "raised", !.exc = "ValueError"]
    /\ call' = [call EXCEPT !["resolver"] = IdleCall]
    /\ UNCHANGED <<cluster_nodes, breaker, reg, regStop, fc, fcStop, reader, lastGood>>

\* the response is the JSON object body: _select filters it, random.choice
\* takes alt, _resolve_port translates the port
RsSelect(body, alt) ==
    /\ res.pc = "query"
    /\ call["resolver"].pc = "returned"
    /\ ~RaisesForStatus(call["resolver"].status)
    /\ LET plan == ResolveHostPort(res.search_domain, res.host)
           source == SelectSource(FactoryMap(body), fc.cache)
           alts == Select(source, Filters(plan))
           r == [res EXCEPT !.pc = "done", !.answered = TRUE,
                            !.keys = DOMAIN body,
                            !.offered = Offered(body, res.host),
                            !.named = Named(body, res.host),
                            !.alts = alts,
                            !.exposing =
                                {k \in alts :
                                    Str(res.port) \in DOMAIN source[k].ports}]
       IN /\ \/ alts = {} /\ alt = 0
             \/ alt \in alts
          /\ res' = Selected(r, source, alt)
    /\ call' = [call EXCEPT !["resolver"] = IdleCall]
    /\ UNCHANGED <<cluster_nodes, breaker, reg, regStop, fc, fcStop, reader, lastGood>>

\* the caller has taken the result or the exception
RsDone ==
    /\ res.pc = "done"
    /\ res' = NoResolve
    /\ UNCHANGED <<cluster_nodes, breaker, call, reg, regStop, fc, fcStop, reader, lastGood>>

\* ------------------------------------------------------ specifications
Init ==
    /\ cluster_nodes \in Perms(Nodes)
    /\ breaker = [n \in Nodes |-> ClosedCircuit]
    /\ call = [t \in Threads |-> IdleCall]
    /\ reg = NoReg
    /\ regStop = NoStop
    /\ fc = NoCache
    /\ fcStop = NoStop
    /\ reader = NoReader
    /\ lastGood = EmptyMap
    /\ res = NoResolve

RequestNext ==
    \/ \E m \in Methods : CallerBegin(m)
    \/ \E elapsed \in BOOLEAN : CallerEnter(elapsed)
    \/ \E o \in Outcomes : \E trips \in TripChoices(o) : CallerRespond(o, trips)
    \/ CallerExhausted
    \/ CallerDone

\* the steps of a registration that exists
RegRun ==
    \/ RegCheck
    \/ \E elapsed \in BOOLEAN : RegEnter(elapsed)
    \/ \E o \in Outcomes : \E trips \in TripChoices(o) : RegRespond(o, trips)
    \/ RegExhausted
    \/ RegAfterPut
    \/ \E over \in BOOLEAN : RegWake(over)
    \/ \E timed \in BOOLEAN : RegStop(timed)
    \/ RegJoin

RegNext == Register \/ RegRun

\* the steps of a formation cache that exists, but for the calls of query()
CacheRun ==
    \/ FcStartReturn
    \/ FcCheck
    \/ FcLock
    \/ \E elapsed \in BOOLEAN : FcEnter(elapsed)
    \/ \E o \in Outcomes : \E trips \in TripChoices(o) : FcRespond(o, trips)
    \/ FcExhausted
    \/ FcRequestFails
    \/ FcJsonFails
    \/ \E b \in Bodies : FcParse(b)
    \/ \E k \in Keys : FcBuildItem(k)
    \/ FcFactoryFails
    \/ \E timed \in BOOLEAN, caught \in BOOLEAN : FcFactoryStops(timed, caught)
    \/ FcSwap
    \/ FcReady
    \/ \E over \in BOOLEAN : FcWake(over)
    \/ \E timed \in BOOLEAN : FcStop(timed)
    \/ FcJoin

QueryNext ==
    \/ QueryCall
    \/ QueryLock
    \/ QueryCopy
    \/ QueryDone

CacheNext == FormationCache \/ CacheRun \/ QueryNext

ResolveNext ==
    \/ \E sd \in SearchDomains, host \in Hosts, port \in Ports : RsCall(sd, host, port)
    \/ \E elapsed \in BOOLEAN : RsEnter(elapsed)
    \/ \E o \in Outcomes : \E trips \in TripChoices(o) : RsRespond(o, trips)
    \/ RsExhausted
    \/ RsRequestFails
    \/ RsJsonFails
    \/ \E b \in RBodies : \E alt \in RKeys \cup {0} : RsSelect(b, alt)
    \/ RsDone

\* the circuits as moved by other users of the client
PeerNext ==
    \/ \E n \in Nodes : PeerBegins(n)
    \/ \E n \in Nodes, ok \in BOOLEAN : PeerEnds(n, ok)

Next == RequestNext \/ RegNext \/ CacheNext \/ PeerNext \/ ResolveNext

Spec == Init /\ [][Next]_vars

\* the transport with one foreground caller as the only user of the client
SpecRequest == Init /\ [][RequestNext]_vars

\* the heartbeat of one registration and its stop(), on a shared client
SpecReg == Init /\ [][RegNext \/ PeerNext]_vars

\* one formation cache, its query() and stop(), on a shared client
SpecCache == Init /\ [][CacheNext \/ PeerNext]_vars

\* an application that keeps one handle, a registration or a formation cache,
\* on a shared client
RegisterOnly == fc.pc = "none" /\ Register
FormationCacheOnly == reg.pc = "none" /\ FormationCache
HandleNext ==
    RegisterOnly \/ RegRun \/ FormationCacheOnly \/ CacheRun \/ PeerNext
SpecHandle == Init /\ [][HandleNext]_vars

\* the steps of the heartbeat thread, but for a wake-up by the interval
RegThread ==
    \/ RegCheck
    \/ \E elapsed \in BOOLEAN : RegEnter(elapsed)
    \/ \E o \in Outcomes : \E trips \in TripChoices(o) : RegRespond(o, trips)
    \/ RegExhausted
    \/ RegAfterPut
    \/ RegWake(FALSE)

\* the steps of the refresh thread, but for a wake-up by the interval
CacheThread ==
    \/ FcCheck
    \/ FcLock
    \/ \E elapsed \in BOOLEAN : FcEnter(elapsed)
    \/ \E o \in Outcomes : \E trips \in TripChoices(o) : FcRespond(o, trips)
    \/ FcExhausted
    \/ FcRequestFails
    \/ FcJsonFails
    \/ \E b \in Bodies : FcParse(b)
    \/ \E k \in Keys : FcBuildItem(k)
    \/ FcFactoryFails
    \/ \E timed \in BOOLEAN, caught \in BOOLEAN : FcFactoryStops(timed, caught)
    \/ FcSwap
    \/ FcReady
    \/ FcWake(FALSE)

\* the client after a shuffle that left the nodes in the order of their
\* numbers; the nodes are interchangeable, so every other order is this one
\* with the nodes renamed
InitOrdered ==
    /\ Init
    /\ cluster_nodes = [i \in 1..NumNodes |-> i]

\* the application of SpecHandle with threads that are scheduled: a
\* background thread that can take a step takes one, and a request in flight
\* ends (a response or an exception); no interval is assumed to run out
SpecHandleFair ==
    /\ InitOrdered
    /\ [][HandleNext]_vars
    /\ WF_vars(RegThread)
    /\ WF_vars(CacheThread)

\* a formation cache that completed one refresh and was then stopped
StoppedCache ==
    [NoCache EXCEPT !.pc = "exited", !.start = "returned", !.stopped = TRUE,
                    !.running = TRUE,
                    !.cache = [k \in {1} |-> CHOOSE v \in Vals : TRUE]]

\* a client that has kept such a cache, with every circuit closed
InitResolve ==
    /\ cluster_nodes \in Perms(Nodes)
    /\ breaker = [n \in Nodes |-> ClosedCircuit]
    /\ call = [t \in Threads |-> IdleCall]
    /\ reg = NoReg
    /\ regStop = NoStop
    /\ fc = StoppedCache
    /\ fcStop = [NoStop EXCEPT !.joined = TRUE]
    /\ reader = NoReader
    /\ lastGood = StoppedCache.cache
    /\ res = NoResolve

\* resolutions of names through the client, beside a stopped formation cache
SpecResolve == InitResolve /\ [][ResolveNext]_vars

\* ------------------------------------------------------ properties
Finished(c) == c.pc \in {"returned", "raised"}
Good(a) == a.kind = "response" /\ ~(a.status >= 500)
Failed5xx(a) == a.kind = "response" /\ a.status >= 500

\* C1: with node order [A, B] and both circuits closed, when A answers the call
\* with a 5xx status the call goes on to B: it does not end with an exception
\* while B was never asked; if B answers below 500 the call returns B's response;
\* and A's circuit has recorded a failure.
C1_FailoverToSecondNode ==
    LET c == call["caller"]
        A == cluster_nodes[1]
        B == cluster_nodes[2]
    IN (Finished(c) /\ Len(c.tried) >= 1 /\ Failed5xx(c.tried[1])
            /\ (Len(c.tried) = 1 => breaker[B] = ClosedCircuit))
       => /\ Len(c.tried) >= 2
          /\ c.tried[2].node = B
          /\ Good(c.tried[2]) => (c.pc = "returned" /\ c.status = c.tried[2].status)
          /\ c.tried[1].event = "error"

\* C2: a _request call in which every node of the order was skipped (circuit
\* open) or failed (5xx or network error) ends by raising the 'no reachable
\* registry node' error, and that error is raised only after every node has
\* been skipped or attempted.
C2_ExhaustionRaisesNoNodeError ==
    \A t \in Threads :
        LET c == call[t] IN
        /\ (/\ Finished(c)
            /\ Len(c.tried) = Len(cluster_nodes)
            /\ \A i \in 1..Len(c.tried) : ~Good(c.tried[i]))
           => (c.pc = "raised" /\ c.exc = "Exception")
        /\ (c.pc = "raised" /\ c.exc = "Exception")
           => Len(c.tried) = Len(cluster_nodes)

\* C3: a heartbeat PUT that fails never ends the loop: the heartbeat thread is
\* never ended by an exception, and it leaves the loop only after stop() has set
\* the signal.
C3_HeartbeatSurvivesFailure ==
    /\ reg.pc # "crashed"
    /\ reg.pc = "exited" => reg.stopped

\* C3 witness: after a PUT that raised, with no stop() called, the next PUT of
\* the loop is in flight.
C3_Witness ==
    /\ reg.failed
    /\ ~reg.stopped
    /\ reg.pc = "put"
    /\ call["reg"].pc = "inflight"

\* C4: when query_formation raises inside a refresh (its _request raised, or
\* the response has an HTTP error status), the refresh thread is not ended by
\* it: its next step is not the end of the thread.
C4_RefreshLoopSurvivesFailure ==
    [][(/\ fc.pc = "request"
        /\ \/ call["cache"].pc = "raised"
           \/ /\ call["cache"].pc = "returned"
              /\ call["cache"].status >= 400)
       => fc'.pc # "crashed"]_vars

\* C5: the snapshot is at all times the mapping of the most recent successful
\* refresh (empty if there was none), failed refreshes included, and every
\* query() copies exactly that mapping.
C5_SnapshotIsLastGoodRefresh ==
    /\ [](fc.cache = lastGood)
    /\ [][(reader.pc = "locked" /\ reader'.pc = "done")
            => reader'.result = lastGood]_vars

\* C5 witness: a query() made after stop() returned, the last refresh having
\* failed, holds the non-empty mapping of an earlier refresh.
C5_Witness ==
    /\ fc.pc = "crashed"
    /\ reader.afterStop
    /\ fcStop.joined
    /\ fcStop.pc = "idle"
    /\ reader.pc = "done"
    /\ reader.result # EmptyMap
    /\ reader.result = lastGood

\* C6: the cache lock is never held while a registry request of a refresh is
\* in flight.
C6_LockNotHeldAcrossRequest ==
    ~(fc.lock = "cache" /\ call["cache"].pc = "inflight")

\* C7: under every interleaving, the mapping a query() returns is the complete
\* mapping of one single completed refresh (the last one completed when the
\* copy was made), or the initial empty mapping if none had completed.
C7_QueryReturnsOneCompleteRefresh ==
    reader.pc = "done" => reader.result = reader.seen

\* C7 witness: a query() holds the complete mapping of an earlier refresh
\* while the refresh thread has half built another mapping with further keys.
C7_Witness ==
    /\ reader.pc = "done"
    /\ reader.result # EmptyMap
    /\ fc.pc = "build"
    /\ fc.built # EmptyMap
    /\ fc.todo # {}
    /\ DOMAIN fc.body # DOMAIN reader.result

\* C8: once a stop() without timeout has returned, the heartbeat thread has
\* left its loop and has no request under way, in every later state.
C8_StopReturnsAfterLoopExit ==
    regStop.joined =>
        /\ reg.pc \in {"exited", "crashed"}
        /\ call["reg"].pc = "idle"

\* C8 witness: a stop() without timeout has returned, after waiting for a PUT
\* that was sent after the signal and failed.
C8_Witness ==
    /\ regStop.joined
    /\ regStop.pc = "idle"
    /\ reg.pc = "exited"
    /\ reg.putsAfter = 1
    /\ reg.failed

\* C9 as stated: no PUT request is sent after stop() has set the signal.
C9_NoPutAfterSignal ==
    reg.putsAfter = 0

\* C9 amended: after stop() has set the signal at most one iteration of the
\* loop, the one whose while test had passed before, still sends its PUT; no
\* later iteration sends one.
C9_AtMostOneLateIteration ==
    reg.putsAfter <= 1

\* C9 witness: the loop has exited after an iteration sent its PUT after the
\* signal was set.
C9_Witness ==
    /\ reg.putsAfter = 1
    /\ reg.pc = "exited"

\* C10: a response with a status below 500 (4xx included) ends the call: it is
\* the last node the call went to and it is what the call returns; and a call
\* that returns, returns such a response.
C10_FirstNon5xxIsReturned ==
    \A t \in Threads :
        LET c == call[t] IN
        /\ \A i \in 1..Len(c.tried) :
              Good(c.tried[i]) =>
                  /\ i = Len(c.tried)
                  /\ c.pc = "returned"
                  /\ c.status = c.tried[i].status
        /\ c.pc = "returned" =>
              /\ Len(c.tried) >= 1
              /\ Good(c.tried[Len(c.tried)])

\* C10 witness: the first node answered 404, the call returned it, and the
\* second node was not contacted.
C10_Witness ==
    LET c == call["caller"] IN
    /\ c.pc = "returned"
    /\ c.status = 404
    /\ Len(c.tried) = 1
    /\ Len(c.tried) < Len(cluster_nodes)

Components == Len(Split(res.host))
ResolveFailed == res.kind = "raised" /\ res.exc = "ResolveError"

\* C12: resolving a name of one component through a Resolver built with the
\* default search domain ends with ResolveError.
C12_NoSearchDomainRaises ==
    (/\ res.pc = "done"
     /\ ~HasDot(res.host)
     /\ res.search_domain = Split(<<>>))
    => ResolveFailed

\* C13: resolving a name that ends in .service and has neither 3 nor 4
\* components ends with ResolveError; it never returns a host and port.
C13_UnsupportedShapeRaises ==
    (/\ res.pc = "done"
     /\ EndsWithService(res.host)
     /\ Components \notin {3, 4})
    => ResolveFailed

\* C14: resolving I.S.F.service against a response of formation F that holds
\* no announcement with service S and instance I ends with ResolveError, also
\* when the response holds other instances of S; an announcement that is
\* picked is always one with service S and instance I.
C14_NoSuchInstanceRaises ==
    (/\ res.pc = "done"
     /\ EndsWithService(res.host)
     /\ Components = 4
     /\ res.answered)
    => /\ res.formation = Split(res.host)[3]
       /\ res.named = {} => (ResolveFailed /\ res.picked = 0)
       /\ res.picked # 0 => res.picked \in res.named
       /\ res.kind = "returned" =>
             (res.picked \in res.named /\ res.rhost = AnnHost(res.picked))

\* C14 witness: the response holds another instance of the service and not
\* the instance of the name, and the resolution ended with ResolveError.
C14_Witness ==
    /\ res.pc = "done"
    /\ EndsWithService(res.host)
    /\ Components = 4
    /\ res.answered
    /\ res.offered # {}
    /\ res.named = {}
    /\ ResolveFailed

\* C15: resolving S.F.service selects among exactly the announcements of the
\* response of formation F whose service is S: each of them can be picked and
\* no other; the result is the host and the translated port of the one picked;
\* with no such announcement the resolution ends with ResolveError.
C15_AnyInstanceOfService ==
    (/\ res.pc = "done"
     /\ EndsWithService(res.host)
     /\ Components = 3
     /\ res.answered)
    => /\ res.formation = Split(res.host)[2]
       /\ res.alts = res.offered
       /\ res.offered = {} => ResolveFailed
       /\ res.offered # {} =>
             /\ res.picked \in res.offered
             /\ res.kind = "returned" => res.rhost = AnnHost(res.picked)
             /\ res.kind = "raised" =>
                   (ResolveFailed /\ Str(res.port) \notin DOMAIN res.ports)

\* C16: with an announcement selected, its ports mapping P and the requested
\* port p: the resolution returns P[str(p)] when str(p) is a key of P, and ends
\* with ResolveError when it is not.
C16_PortTranslated ==
    (res.pc = "done" /\ res.picked # 0)
    => IF Str(res.port) \in DOMAIN res.ports
       THEN res.kind = "returned" /\ res.rport = res.ports[Str(res.port)]
       ELSE ResolveFailed

\* C16 witness: port 80 was asked for and the port the chosen instance
\* publishes it as was returned.
C16_Witness ==
    /\ res.pc = "done"
    /\ res.picked # 0
    /\ res.kind = "returned"
    /\ res.port = 80
    /\ res.rport = AnnPort(res.picked)
    /\ res.rport = res.ports["80"]

\* C17: a name that holds a dot and does not end in .service is returned as
\* given, with the port as given, without any _request call and with every
\* circuit left as it was.
C17_PassThroughUnchanged ==
    /\ []((res.pc # "idle" /\ HasDot(res.host) /\ ~EndsWithService(res.host))
            => /\ res.pc = "done"
               /\ res.kind = "returned"
               /\ res.rhost = res.host
               /\ res.rport = res.port
               /\ res.requests = 0
               /\ call["resolver"].pc = "idle")
    /\ [][(res.pc = "idle" /\ res'.pc # "idle"
            /\ HasDot(res'.host) /\ ~EndsWithService(res'.host))
           => (breaker' = breaker /\ call' = call)]_vars

\* C17 witness: a name of three components that does not end in .service was
\* returned as given while a circuit of the client is open.
C17_Witness ==
    /\ res.pc = "done"
    /\ Components = 3
    /\ ~EndsWithService(res.host)
    /\ res.rhost = res.host
    /\ res.rport = res.port
    /\ \E n \in Nodes : breaker[n] = OpenCircuit

\* C18: every resolution of a symbolic name makes one GET of its own through
\* _request and selects from the response to it: what it picks is a key of
\* that response and the host it returns is that of the response, never the
\* one the snapshot of the formation cache holds; the snapshot is not changed.
C18_FreshQueryNotCache ==
    /\ res.pc = "query" =>
          /\ res.requests = 1
          /\ call["resolver"].pc # "idle"
          /\ call["resolver"].method = "GET"
    /\ (res.pc = "done" /\ (~HasDot(res.host)
                             \/ (EndsWithService(res.host) /\ Components \in {3, 4})))
          => res.requests = 1
    /\ (res.pc = "done" /\ res.answered) =>
          /\ res.alts \subseteq res.keys
          /\ res.picked # 0 => res.picked \in res.keys
          /\ res.kind = "returned" => res.rhost = AnnHost(res.picked)
    /\ fc.cache = StoppedCache.cache

\* C18 witness: the resolution returned the host of the response for a key the
\* cache snapshot holds with another host.
C18_Witness ==
    /\ res.pc = "done"
    /\ res.kind = "returned"
    /\ res.picked \in DOMAIN fc.cache
    /\ res.rhost # CachedAnnouncement(fc.cache[res.picked]).host
    /\ res.requests = 1

\* C19: a stop() on a handle whose signal is already set, registration or
\* formation cache, changes nothing of the handle, of the running requests, of
\* the circuits or of the snapshot; once a stop() without timeout has returned
\* the signal stays set, the loop stays exited with no request under way, the
\* snapshot is never changed again, and a further stop() returns at once.
C19_StopIsIdempotent ==
    /\ [](regStop.joined =>
            /\ reg.stopped
            /\ reg.pc \in {"exited", "crashed"}
            /\ call["reg"].pc = "idle")
    /\ [](fcStop.joined =>
            /\ fc.stopped
            /\ fc.pc \in {"exited", "crashed"}
            /\ call["cache"].pc = "idle"
            /\ fc.lock = "free")
    /\ [][(reg.stopped /\ regStop' # regStop)
            => (reg' = reg /\ call' = call /\ breaker' = breaker)]_vars
    /\ [][(fc.stopped /\ fcStop' # fcStop)
            => (fc' = fc /\ lastGood' = lastGood /\ call' = call
                /\ breaker' = breaker)]_vars
    /\ [][fcStop.joined => fc'.cache = fc.cache]_vars
    /\ [](regStop.joined /\ regStop.pc = "join" => ENABLED RegJoin)
    /\ [](fcStop.joined /\ fcStop.pc = "join" => ENABLED FcJoin)

\* C19 witness: a second stop() of a formation cache is under way after the
\* first one returned; the cache holds the mapping of a completed refresh.
C19_Witness ==
    /\ fcStop.joined
    /\ fcStop.pc = "join"
    /\ ~fcStop.timed
    /\ fc.cache # EmptyMap

\* the same for a registration: a second stop() is under way after the first
\* one returned
C19_WitnessRegistration ==
    /\ regStop.joined
    /\ regStop.pc = "join"
    /\ ~regStop.timed
    /\ reg.pc = "exited"

\* C20: start() can return in every state in which it waits: whether the
\* first refresh has completed, has failed, or is still under way, the wait on
\* _running ends with its timeout at the latest.
C20_StartReturnsBounded ==
    fc.start = "waiting" => ENABLED FcStartReturn

\* C20 witness: formation_cache() has returned while the request of the first
\* refresh is still in flight, _running not set and the snapshot empty.
C20_Witness ==
    /\ fc.start = "returned"
    /\ fc.pc = "request"
    /\ call["cache"].pc = "inflight"
    /\ ~fc.running
    /\ fc.cache = EmptyMap
    /\ lastGood = EmptyMap

\* C21: the step that ends a successful refresh makes the snapshot exactly the
\* mapping of that refresh's response, with the keys of the response and no
\* key kept from the snapshot before; and what a query() copies has exactly
\* the keys of the response of the last completed refresh.
C21_RefreshReplacesWholesale ==
    /\ [][(fc.pc = "build" /\ fc'.pc = "updated")
            => /\ DOMAIN fc'.cache = DOMAIN fc.body
               /\ fc'.cache = FactoryMap(fc.body)]_vars
    /\ [][(reader.pc = "locked" /\ reader'.pc = "done")
            => DOMAIN reader'.result = DOMAIN lastGood]_vars

\* C21 witness: a query() made before the last refresh still holds a key that
\* the snapshot, replaced by that refresh, no longer has.
C21_Witness ==
    /\ reader.pc = "done"
    /\ fc.pc \in {"updated", "sleep"}
    /\ fc.cache = lastGood
    /\ \E k \in DOMAIN reader.result : k \notin DOMAIN fc.cache
    /\ fc.cache # EmptyMap

\* C22: register() ends with the thread at the head of its loop and no
\* request made or awaited; the thread waits on the interval only after a
\* request; and every request of the handle is a PUT to
\* /{formation}/{service}.{instance} for the names given to register(),
\* carrying the text of the announcement given to register(), which the
\* handle never changes.
C22_RegistrationRequests ==
    /\ [][(reg.pc = "none" /\ reg'.pc # "none")
            => /\ reg'.pc = "check"
               /\ reg'.request = <<>>
               /\ reg'.data \in {a.data : a \in RegArgs}
               /\ call' = call
               /\ breaker' = breaker]_vars
    /\ [][(reg.pc # "sleep" /\ reg'.pc = "sleep") => reg.pc = "put"]_vars
    /\ [](reg.pc = "sleep" => reg.request # <<>>)
    /\ [](call["reg"].pc # "idle"
            => /\ call["reg"].method = "PUT"
               /\ reg.request =
                    << [method |-> "PUT",
                        uri |-> <<"/">> \o reg.form_name \o <<"/">>
                                 \o reg.service \o <<".">>
                                 \o reg.instance_name,
                        data |-> [json |-> reg.data]] >>)
    /\ [][reg.pc # "none"
            => /\ reg'.form_name = reg.form_name
               /\ reg'.service = reg.service
               /\ reg'.instance_name = reg.instance_name
               /\ reg'.data = reg.data]_vars

\* C22 witness: a heartbeat after a failed one is in flight, a PUT to
\* /f/a.b with the announcement of instance b of service a.
C22_Witness ==
    /\ reg.pc = "put"
    /\ reg.failed
    /\ call["reg"].pc = "inflight"
    /\ call["reg"].method = "PUT"
    /\ reg.request # <<>>
    /\ reg.request[1].uri = <<"/", "f", "/", "a", ".", "b">>
    /\ reg.request[1].data.json.host = <<"h1">>

\* C23: a step of _request changes no circuit but the one of the node it
\* attempts; what an attempt records is a success for a response below 500,
\* a failure for a response of 500 or above and for an exception of a handled
\* type, and nothing for a node skipped on its open circuit; a success closes
\* a half-open circuit and leaves any other as it is, a failure leaves the
\* circuit as it is or opens it.
C23_AttemptChangesOwnBreakerOnly ==
    /\ [][\A t \in Threads :
            call'[t] # call[t]
                => \A n \in Nodes :
                    breaker'[n] # breaker[n]
                        => /\ call[t].pc \in {"loop", "inflight"}
                           /\ call[t].idx \in 1..Len(cluster_nodes)
                           /\ n = cluster_nodes[call[t].idx]]_vars
    /\ [](\A t \in Threads : \A i \in DOMAIN call[t].tried :
            LET a == call[t].tried[i] IN
                /\ (a.kind = "response" /\ a.status < 500) => a.event = "success"
                /\ (a.kind = "response" /\ a.status >= 500) => a.event = "error"
                /\ a.kind \in {"RequestException", "ConnectionError",
                               "TooManyRedirects"} => a.event = "error"
                /\ a.kind = "open" => a.event = "skipped")
    /\ [][\A t \in Threads :
            Len(call'[t].tried) = Len(call[t].tried) + 1
                => LET a == call'[t].tried[Len(call'[t].tried)]
                       before == breaker[a.node]
                       after == breaker'[a.node]
                   IN /\ a.node = cluster_nodes[call[t].idx]
                      /\ a.event = "success"
                            => after = IF before = "half-open" THEN "closed"
                                       ELSE before
                      /\ a.event = "error" => after \in {before, "open"}
                      /\ a.event = "skipped" => breaker' = breaker]_vars

\* C23 witness: a call skipped its first node, whose circuit is still open,
\* and failed on its second with a 5xx response that opened that circuit.
C23_Witness ==
    LET c == call["caller"] IN
        /\ c.pc = "raised"
        /\ Len(c.tried) = 2
        /\ c.tried[1].kind = "open"
        /\ breaker[c.tried[1].node] = "open"
        /\ c.tried[2].kind = "response"
        /\ c.tried[2].status >= 500
        /\ c.tried[2].event = "error"
        /\ breaker[c.tried[2].node] = "open"

\* C24: once stop() has set the signal, a loop that sleeps between two
\* iterations can wake with no part of its interval passing, and the
\* background thread ends, given that the thread is scheduled and a request it
\* has in flight ends.
C24_StopEndsTheLoop ==
    /\ [](reg.pc = "sleep" /\ reg.stopped => ENABLED RegWake(FALSE))
    /\ [](fc.pc = "sleep" /\ fc.stopped => ENABLED FcWake(FALSE))
    /\ (reg.stopped ~> reg.pc \in {"exited", "crashed"})
    /\ (fc.stopped ~> fc.pc \in {"exited", "crashed"})

\* C24 witness: stop() without timeout has set the signal while the
\* heartbeat loop sleeps, and waits for the thread.
C24_Witness ==
    /\ reg.pc = "sleep"
    /\ reg.stopped
    /\ regStop.pc = "join"
    /\ ~regStop.timed

\* C25: a stop() called by the factory callback inside a refresh ends at
\* once, the refresh thread going on in the refresh or leaving it with the
\* lock released; and the refresh thread never keeps the cache lock for
\* good, given that it is scheduled and its request in flight ends.
C25_StopFromWithinDoesNotDeadlock ==
    /\ [][(fc.pc = "build" /\ ~fc.stopped /\ fc'.stopped /\ fcStop' = fcStop)
            => /\ fc'.pc \in {"build", "crashed"}
               /\ fc'.pc = "crashed" => fc'.lock = "free"]_vars
    /\ ((fc.stopped /\ fc.lock = "cache") ~> fc.lock = "free")

\* C25 witness: the factory called stop() during the first refresh, before
\* formation_cache() returned the handle to anyone else; the thread has ended
\* with the signal set and the lock free.
C25_Witness ==
    /\ fc.pc = "crashed"
    /\ fc.stopped
    /\ fc.start = "waiting"
    /\ fcStop.pc = "idle"
    /\ fc.lock = "free"

\* C26: the readiness signal is set only by the step that follows a
\* completed _update, which is entered only by the step that assigns the
\* mapping of the response to the snapshot and releases the lock; once set it
\* stays set; and a thread that an exception has ended never sets it, so it is
\* never set when the first refresh fails.
C26_ReadyOnlyAfterRefresh ==
    /\ [][(~fc.running /\ fc'.running) => fc.pc = "updated"]_vars
    /\ [][(fc.pc # "updated" /\ fc'.pc = "updated")
            => /\ fc.pc = "build"
               /\ fc.todo = {}
               /\ fc'.cache = FactoryMap(fc.body)
               /\ fc'.lock = "free"]_vars
    /\ [][fc.running => fc'.running]_vars
    /\ [][fc.pc = "crashed" => (fc'.pc = "crashed" /\ fc'.running = fc.running)]_vars

\* C26 witness: the first refresh failed and ended the thread; start() has
\* returned on its timeout and the signal is not set.
C26_Witness ==
    /\ fc.pc = "crashed"
    /\ ~fc.running
    /\ ~fc.stopped
    /\ fc.start = "returned"

\* C27: a resolution that chose an instance chose it among the alternatives
\* that match the name; it returns the host and the published port of that
\* one announcement when that announcement publishes the port asked for, and
\* ends with ResolveError when it does not, whatever the other alternatives
\* publish.
C27_HostAndPortOfOneAnnouncement ==
    (res.pc = "done" /\ res.picked # 0)
    => /\ res.picked \in res.alts
       /\ IF res.picked \in res.exposing
          THEN /\ res.kind = "returned"
               /\ res.rhost = AnnHost(res.picked)
               /\ res.rport = AnnPort(res.picked)
          ELSE ResolveFailed

\* C27 witness: the chosen instance does not publish the port, another
\* matching instance does, and the resolution ended with ResolveError.
C27_Witness ==
    /\ res.pc = "done"
    /\ res.picked # 0
    /\ res.picked \notin res.exposing
    /\ res.exposing # {}
    /\ ResolveFailed

====
